---- MODULE Spec2Model ----
(***************************************************************************)
(* Model of src/bilifavirousdownload.py: the download ledger (history      *)
(* file and in-memory set), the stream resolver (_get_media_urls), the     *)
(* fetcher (_download_media), the muxer (_merge_files) and the pipeline    *)
(* (download_video) of BilibiliDownloader.                                 *)
(***************************************************************************)
EXTENDS Integers, Sequences, FiniteSets, TLC

(***************************************************************************)
(* Bounds of the model.                                                    *)
(***************************************************************************)
MaxJobs == 2          \* download_video calls made in one run
BodyLen == 2          \* chunks in one response body
MaxVideoCands == 3    \* candidates in the video list of a manifest
MaxAudioCands == 2    \* candidates in the audio list of a manifest
MaxBandwidth == 2     \* bandwidths range over 1..MaxBandwidth
MaxHistory == 1       \* records in the history file when the program starts
MaxTextLen == 2       \* characters in an enumerated title, part label or uploader name
MaxBvidLen == 2       \* characters in an enumerated bvid
MaxCid == 12          \* enumerated cids range over 1..MaxCid

(***************************************************************************)
(* Program constants.                                                      *)
(***************************************************************************)
max_retries == 3      \* Config.max_retries
HiResAudioId == 30251 \* the hi-res audio id preferred by _get_media_urls
TitleMax == 100       \* title is cut to 100 characters

(***************************************************************************)
(* Files.  A file either does not exist or holds a sequence of data.       *)
(***************************************************************************)
NoFile == [exists |-> FALSE, data |-> <<>>]

FileOf(data) == [exists |-> TRUE, data |-> data]

\* open(path, "w") / open(path, "wb"): the file is created or truncated
open_w(file) == FileOf(<<>>)

\* f.write(...) of a sequence of data by a writer that opened the file for
\* writing and has written nothing yet: the data lands at offset 0
write(file, data) ==
    FileOf(data \o SubSeq(file.data, Len(data) + 1, Len(file.data)))

\* path.unlink() guarded by path.exists(), and unlink(missing_ok=True)
unlink(file) == NoFile

(***************************************************************************)
(* The universe of jobs: bvid, cid, quality.                               *)
(***************************************************************************)
\* bvids are texts: sequences of one-character strings
BV1 == <<"B", "V", "1">>

BV2 == <<"B", "V", "2">>

BV9 == <<"B", "V", "9">>

Bvids == {BV1, BV2}
Cids == {1}
Qualities == {64, 80}
Keys == Bvids \X Cids \X Qualities

\* the keys recorded by earlier runs
HistoryKeys == {<<BV1, 1, 80>>, <<BV2, 1, 64>>}

(***************************************************************************)
(* The history file.  Its text is a sequence of tokens: json.dump of a     *)
(* list of records writes an opening bracket, one object per record and a  *)
(* closing bracket.  A file of zero tokens is a zero-byte file.            *)
(***************************************************************************)
LBracket == [tok |-> "["]
RBracket == [tok |-> "]"]
Garbage == [tok |-> "garbage"]

\* the record appended by _save_download_entry (title, up and timestamp are
\* carried by the real record and take no part in the key)
Entry(bvid, cid, quality) ==
    [tok |-> "obj", bvid |-> bvid, cid |-> cid, quality |-> quality]

EntryKey(e) == <<e.bvid, e.cid, e.quality>>

KeyEntry(k) == Entry(k[1], k[2], k[3])

\* json.dump(records, f): the text written for a list of records
json_dump(records) == <<LBracket>> \o records \o <<RBracket>>

\* json.load succeeds on a text exactly when it is a complete array
json_valid(text) ==
    /\ Len(text) >= 2
    /\ text[1] = LBracket
    /\ text[Len(text)] = RBracket
    /\ \A i \in 2..(Len(text) - 1) : text[i].tok = "obj"

\* json.load(f) of a valid text: the list of records
json_load(text) == SubSeq(text, 2, Len(text) - 1)

SeqRange(s) == {s[i] : i \in 1..Len(s)}

\* _load_download_history: the set of keys, and whether an error was logged
_load_download_history(file) ==
    IF ~file.exists THEN [keys |-> {}, error |-> FALSE]
    ELSE IF Len(file.data) = 0 THEN [keys |-> {}, error |-> FALSE]
    ELSE IF json_valid(file.data)
         THEN [keys |-> {EntryKey(e) : e \in SeqRange(json_load(file.data))},
               error |-> FALSE]
         ELSE [keys |-> {}, error |-> TRUE]

\* Config.__post_init__: a missing history file is created as an empty list
post_init(file) == IF file.exists THEN file ELSE FileOf(json_dump(<<>>))

(***************************************************************************)
(* The stream resolver.  A playurl response carries an HTTP status, the    *)
(* application code and, under data, an optional dash manifest with a      *)
(* video and an audio candidate list.  A candidate has an id, a bandwidth  *)
(* and its URL under the key baseUrl or base_url (None when absent).       *)
(***************************************************************************)
None == <<>>     \* Python None, and the empty (falsy) URL

Candidate(id, bandwidth, baseUrl, base_url) ==
    [id |-> id, bandwidth |-> bandwidth, baseUrl |-> baseUrl, base_url |-> base_url]

\* max(iterable, key=bandwidth, default=None) over the positions in idx:
\* the first position of maximal bandwidth, 0 for None
max_bandwidth(list, idx) ==
    IF idx = {} THEN 0
    ELSE CHOOSE i \in idx :
            \A j \in idx : /\ list[j].bandwidth <= list[i].bandwidth
                           /\ (j < i => list[j].bandwidth < list[i].bandwidth)

\* a selection that takes the maximal bandwidth over every rank
video_stream_any_rank(video, quality) == max_bandwidth(video, 1..Len(video))

\* video_stream: the position selected in dash["video"], 0 for None
video_stream(video, quality) ==
    max_bandwidth(video, {i \in 1..Len(video) : video[i].id = quality})

\* hi_res_audio: next(a for a in dash["audio"] if id == 30251), 0 for None
hi_res_audio(audio) ==
    LET hits == {i \in 1..Len(audio) : audio[i].id = HiResAudioId}
    IN  IF hits = {} THEN 0 ELSE CHOOSE i \in hits : \A j \in hits : i <= j

\* a selection by bandwidth alone, with no preference for the hi-res id
audio_stream_by_bandwidth(audio) == max_bandwidth(audio, 1..Len(audio))

\* audio_stream: the position selected in dash["audio"], 0 for None
audio_stream(audio) ==
    IF hi_res_audio(audio) # 0 THEN hi_res_audio(audio)
    ELSE max_bandwidth(audio, 1..Len(audio))

\* a lookup that falls back to a fixed URL when the candidate carries none
stream_url_or_default(c) ==
    IF c.baseUrl # None THEN c.baseUrl
    ELSE IF c.base_url # None THEN c.base_url ELSE <<"default", 0>>

\* stream.get("baseUrl") or stream.get("base_url")
stream_url(c) == IF c.baseUrl # None THEN c.baseUrl ELSE c.base_url

NoUrls == [video_url |-> None, audio_url |-> None]

NoStreams == [video |-> 0, audio |-> 0]

\* whether _get_media_urls gets as far as selecting streams from the manifest
has_manifest(resp) ==
    resp.http_ok /\ resp.code = 0 /\ resp.has_dash /\ resp.has_video /\ resp.has_audio

\* the locals video_stream and audio_stream of _get_media_urls
selected_streams(resp, quality) ==
    IF has_manifest(resp)
    THEN [video |-> video_stream(resp.video, quality), audio |-> audio_stream(resp.audio)]
    ELSE NoStreams

\* _get_media_urls: the pair (video_url, audio_url) for a response
_get_media_urls(resp, quality) ==
    IF ~resp.http_ok THEN NoUrls                     \* raise_for_status
    ELSE IF resp.code # 0 THEN NoUrls
    ELSE IF ~resp.has_dash THEN NoUrls
    ELSE IF ~resp.has_video \/ ~resp.has_audio THEN NoUrls   \* KeyError
    ELSE LET v == video_stream(resp.video, quality)
             a == audio_stream(resp.audio)
         IN  IF v # 0 /\ a # 0
             THEN [video_url |-> stream_url(resp.video[v]),
                   audio_url |-> stream_url(resp.audio[a])]
             ELSE NoUrls

(***************************************************************************)
(* File names.  A text is a sequence of one-character strings.             *)
(***************************************************************************)
Illegal == {"\\", "/", ":", "*", "?", "\"", "<", ">", "|"}

\* re.sub(r'[\\/:*?"<>|]', "", text)
re_sub(text) == SelectSeq(text, LAMBDA ch : ch \notin Illegal)

RECURSIVE lstrip(_)
lstrip(text) ==
    IF text # <<>> /\ Head(text) = " " THEN lstrip(Tail(text)) ELSE text

RECURSIVE rstrip(_)
rstrip(text) ==
    IF text # <<>> /\ text[Len(text)] = " "
    THEN rstrip(SubSeq(text, 1, Len(text) - 1)) ELSE text

\* str.strip()
strip(text) == rstrip(lstrip(text))

\* text[:n]
slice_to(text, n) == IF Len(text) <= n THEN text ELSE SubSeq(text, 1, n)

\* title = re.sub(..., video_info["title"]).strip()[:100]
title_of(info) == slice_to(strip(re_sub(info.title)), TitleMax)

\* an uploader name that is trimmed but keeps every character
up_name_of_unsanitized(info) == strip(info.owner_name)

\* up_name = re.sub(..., owner.get("name", "unknown")).strip()
up_name_of(info) == strip(re_sub(info.owner_name))

\* page_info = next(p for p in pages if p["cid"] == cid): its position, 0 for None
page_info(info, cid) ==
    LET hits == {i \in 1..Len(info.pages) : info.pages[i].cid = cid}
    IN  IF hits = {} THEN 0 ELSE CHOOSE i \in hits : \A j \in hits : i <= j

\* output_name = f"{title}_{part}-{up_name}{suffix}.mp4"
output_name(info, cid, suffix) ==
    title_of(info) \o <<"_">> \o strip(re_sub(info.pages[page_info(info, cid)].part))
        \o <<"-">> \o up_name_of(info) \o suffix \o <<".mp4">>

\* output_path = dest_dir / output_name
output_path_of(dest_dir, info, cid, suffix) ==
    <<dest_dir, output_name(info, cid, suffix)>>

\* temp_dir / f"{bvid}_{cid}_video.m4s" and temp_dir / f"{bvid}_{cid}_audio.m4s"
Digits == <<"0", "1", "2", "3", "4", "5", "6", "7", "8", "9">>

\* str(n) for a natural number: its decimal digits
RECURSIVE str(_)
str(n) ==
    IF n < 10 THEN <<Digits[n + 1]>>
    ELSE str(n \div 10) \o <<Digits[(n % 10) + 1]>>

\* the word video or audio of a temporary file name
kind_name(kind) ==
    IF kind = "video" THEN <<"v", "i", "d", "e", "o">> ELSE <<"a", "u", "d", "i", "o">>

\* a file name that runs the bvid and the cid together
temp_path_unseparated(bvid, cid, kind) ==
    bvid \o str(cid) \o <<"_">> \o kind_name(kind) \o <<".m4s">>

temp_path(bvid, cid, kind) ==
    bvid \o <<"_">> \o str(cid) \o <<"_">> \o kind_name(kind) \o <<".m4s">>

TempPaths == {temp_path(b, c, k) : b \in Bvids, c \in Cids, k \in {"video", "audio"}}

(***************************************************************************)
(* The environment: what the platform and the external tool may answer.    *)
(***************************************************************************)
NoInfo == [ok |-> FALSE, title |-> <<>>, pages |-> <<>>, owner_name |-> <<>>]

Info(title, pages, owner_name) ==
    [ok |-> TRUE, title |-> title, pages |-> pages, owner_name |-> owner_name]

\* the answers of get_video_info for a bvid: None, or the data of the video
VideoInfos(bvid) ==
    { NoInfo,
      Info(<<"a", "/", "b">>, <<[cid |-> 1, part |-> <<"p", "?">>]>>, <<"x", "<", "y">>),
      Info(<<"a", "b", " ">>,
           <<[cid |-> 2, part |-> <<"q">>], [cid |-> 1, part |-> <<"p">>]>>,
           <<"x", "y">>),
      Info(<<"c">>, <<[cid |-> 2, part |-> <<"q">>]>>, <<"z">>) }

\* the arguments dest_dir and suffix as main() passes them
JobArgs == { [dest_dir |-> "folder", suffix |-> <<>>],
             [dest_dir |-> "folder/hdr", suffix |-> <<"-", "h", "d", "r">>] }

NoResp == [http_ok |-> FALSE, code |-> 0, has_dash |-> FALSE,
           has_video |-> FALSE, video |-> <<>>, has_audio |-> FALSE, audio |-> <<>>]

Manifest(video, audio) ==
    [http_ok |-> TRUE, code |-> 0, has_dash |-> TRUE,
     has_video |-> TRUE, video |-> video, has_audio |-> TRUE, audio |-> audio]

\* the playurl answers without a usable manifest: HTTP error, application
\* error code, no dash, no video list, no audio list
FailedResponses ==
    { NoResp,
      [NoResp EXCEPT !.http_ok = TRUE, !.code = -404],
      [NoResp EXCEPT !.http_ok = TRUE],
      [Manifest(<<>>, <<>>) EXCEPT !.has_video = FALSE],
      [Manifest(<<>>, <<>>) EXCEPT !.has_audio = FALSE] }

\* the body served for a URL: the same chunks at every attempt
Body(url) == [i \in 1..BodyLen |-> <<url, i>>]

\* the URL of the candidate at position i of a track list
Url(track, i) == <<track, i>>

AudioIds == {30216, HiResAudioId}

\* the candidates of the enumerated lists carry their URL under baseUrl
VideoCands(i) ==
    { Candidate(id, bw, Url("video", i), None) :
        id \in Qualities, bw \in 1..MaxBandwidth }

AudioCands(i) ==
    { Candidate(id, bw, Url("audio", i), None) :
        id \in AudioIds, bw \in 1..MaxBandwidth }

\* the video candidate lists of length n, the i-th member drawn from VideoCands(i)
RECURSIVE VideoListsOf(_)
VideoListsOf(n) ==
    IF n = 0 THEN {<<>>}
    ELSE {Append(list, c) : list \in VideoListsOf(n - 1), c \in VideoCands(n)}

\* the audio candidate lists of length n, the i-th member drawn from AudioCands(i)
RECURSIVE AudioListsOf(_)
AudioListsOf(n) ==
    IF n = 0 THEN {<<>>}
    ELSE {Append(list, c) : list \in AudioListsOf(n - 1), c \in AudioCands(n)}

VideoLists == UNION {VideoListsOf(n) : n \in 0..MaxVideoCands}

AudioLists == UNION {AudioListsOf(n) : n \in 0..MaxAudioCands}

\* a few lists of each track, to go with every list of the other track
SampleVideoLists ==
    { <<>>,
      <<Candidate(80, 1, Url("video", 1), None), Candidate(64, 2, None, Url("video", 2))>>,
      <<Candidate(64, 1, Url("video", 1), None)>>,
      <<Candidate(80, 1, None, None)>>,
      <<Candidate(80, 2, None, None), Candidate(80, 1, Url("video", 2), None)>> }

SampleAudioLists ==
    { <<>>,
      <<Candidate(30216, 1, Url("audio", 1), None)>>,
      <<Candidate(30216, 1, None, None)>> }

\* the playurl answers the pipeline is run against
Responses ==
    FailedResponses \cup {Manifest(v, a) : v \in SampleVideoLists, a \in SampleAudioLists}

\* the playurl answers the resolver is run against
AllResponses ==
    FailedResponses
        \cup {Manifest(v, a) : v \in VideoLists, a \in SampleAudioLists}
        \cup {Manifest(v, a) : v \in SampleVideoLists, a \in AudioLists}

(***************************************************************************)
(* The state of one downloader process and of the directories it uses.     *)
(***************************************************************************)
VARIABLES
    history_file,   \* config.history_file: the file of the ledger
    downloaded,     \* self.downloaded: the in-memory set of keys
    load_error,     \* whether _load_download_history logged an error
    temp_dir,       \* config.temp_dir: the file at each temporary path
    outputs,        \* the destination directories: the file at each output path
    pc,             \* the position of the process in download_video
    job,            \* the arguments of the current download_video call
    video_info,     \* local video_info of download_video
    output_path,    \* local output_path of download_video
    temp_video,     \* local temp_video of download_video
    temp_audio,     \* local temp_audio of download_video
    resp,           \* local data of _get_media_urls
    streams,        \* locals video_stream, audio_stream of _get_media_urls
    urls,           \* locals video_url, audio_url of download_video
    retry,          \* loop variable of _download_media
    attempts,       \* the outcomes of the transfer attempts of the current _download_media call
    dl_ret,         \* the value returned by the last _download_media call
    merge_ret,      \* how the last _merge_files call ended: "True", "False" or "raised"
    records,        \* local records of _save_download_entry
    durable,        \* the keys the history file held when _save_download_entry was entered
    success,        \* local success of download_video
    outcome,        \* how the current download_video call ended
    result,         \* the value returned by the last download_video call
    trace,          \* the stages the current download_video call has invoked
    njobs,          \* download_video calls made so far
    peer            \* a second downloader process sharing the history file

vars == <<history_file, downloaded, load_error, temp_dir, outputs, pc, job,
          video_info, temp_video, temp_audio,
          output_path, resp, streams, urls, retry, attempts, dl_ret, merge_ret, records,
          durable,
          success, outcome, result, trace, njobs, peer>>

\* the key the second process records, and the state of its _save_download_entry
PeerKey == <<BV9, 1, 80>>

PeerIdle == [pc |-> "idle", records |-> <<>>]

NoJob == [bvid |-> <<>>, cid |-> 0, quality |-> 0, dest_dir |-> "", suffix |-> <<>>]

JobKey(j) == <<j.bvid, j.cid, j.quality>>

\* an output file: whether the muxer finished writing it, and for which job
Output(complete, key) == [exists |-> TRUE, complete |-> complete, key |-> key]

NoOutput == [exists |-> FALSE, complete |-> FALSE, key |-> <<>>]

\* the output paths the jobs of the model can name
OutputPaths ==
    UNION { { output_path_of(a.dest_dir, info, c, a.suffix) :
                a \in JobArgs,
                info \in {i \in UNION {VideoInfos(b) : b \in Bvids} :
                                i.ok /\ page_info(i, c) # 0} } :
            c \in Cids }

\* the lists of n records of a history file left by earlier runs
RECURSIVE EntryLists(_)
EntryLists(n) ==
    IF n = 0 THEN {<<>>}
    ELSE {Append(list, KeyEntry(k)) : list \in EntryLists(n - 1), k \in HistoryKeys}

\* the history files the program may find when it starts
InitialHistoryFiles ==
    { NoFile,                                        \* missing
      FileOf(<<>>),                                  \* zero bytes
      FileOf(<<Garbage>>),                           \* invalid syntax
      FileOf(<<LBracket, KeyEntry(<<BV1, 1, 80>>)>>) }   \* a truncated array
        \cup {FileOf(json_dump(list)) : list \in UNION {EntryLists(n) : n \in 0..MaxHistory}}

\* the state of the process after Config.__post_init__ and __init__
Constructed(file) ==
    /\ history_file = post_init(file)
    /\ downloaded = _load_download_history(post_init(file)).keys
    /\ load_error = _load_download_history(post_init(file)).error
    /\ pc = "ready"
    /\ job = NoJob
    /\ video_info = NoInfo
    /\ output_path = None
    /\ temp_video = None
    /\ temp_audio = None
    /\ resp = NoResp
    /\ streams = NoStreams
    /\ urls = NoUrls
    /\ retry = 0
    /\ attempts = <<>>
    /\ dl_ret = FALSE
    /\ merge_ret = "none"
    /\ records = <<>>
    /\ durable = {}
    /\ success = FALSE
    /\ outcome = "none"
    /\ result = FALSE
    /\ trace = <<>>
    /\ njobs = 0
    /\ peer = PeerIdle

Init ==
    /\ \E file \in InitialHistoryFiles : Constructed(file)
    /\ temp_dir = [p \in TempPaths |-> NoFile]
    /\ outputs = [p \in OutputPaths |-> NoOutput]

(***************************************************************************)
(* download_video, step by step.                                           *)
(***************************************************************************)
\* return value from download_video
Return(value, how) ==
    /\ pc' = "returned"
    /\ result' = value
    /\ outcome' = how

\* a ledger check that never finds the key
ledger_contains_never(key, set) == FALSE

\* (bvid, cid, quality) in self.downloaded
ledger_contains(key, set) == key \in set

\* the call and the ledger check
dv_check_ledger(bvid, cid, quality, args) ==
    /\ pc \in {"ready", "returned"}
    /\ njobs < MaxJobs
    /\ njobs' = njobs + 1
    /\ job' = [bvid |-> bvid, cid |-> cid, quality |-> quality,
               dest_dir |-> args.dest_dir, suffix |-> args.suffix]
    /\ trace' = <<>>
    /\ video_info' = NoInfo
    /\ output_path' = None
    /\ temp_video' = None
    /\ temp_audio' = None
    /\ resp' = NoResp
    /\ streams' = NoStreams
    /\ urls' = NoUrls
    /\ retry' = 0
    /\ attempts' = <<>>
    /\ dl_ret' = FALSE
    /\ merge_ret' = "none"
    /\ records' = <<>>
    /\ success' = FALSE
    /\ durable' = {}
    /\ IF ledger_contains(<<bvid, cid, quality>>, downloaded)
       THEN Return(TRUE, "skipped")
       ELSE /\ pc' = "get_video_info"
            /\ result' = FALSE
            /\ outcome' = "none"
    /\ UNCHANGED <<history_file, downloaded, load_error, temp_dir, outputs, peer>>

\* get_video_info, the page lookup and the output path
dv_get_video_info(info) ==
    /\ pc = "get_video_info"
    /\ trace' = Append(trace, "get_video_info")
    /\ video_info' = info
    /\ IF ~info.ok
       THEN Return(FALSE, "info_failed") /\ UNCHANGED output_path
       ELSE IF page_info(info, job.cid) = 0
       THEN Return(FALSE, "page_missing") /\ UNCHANGED output_path
       ELSE /\ output_path' = output_path_of(job.dest_dir, info, job.cid, job.suffix)
            /\ pc' = "_get_media_urls"
            /\ UNCHANGED <<result, outcome>>
    /\ UNCHANGED <<history_file, downloaded, load_error, temp_dir, outputs, job,
                   temp_video, temp_audio,
                   resp, urls, retry, attempts, dl_ret, merge_ret, records,
                   durable, success, njobs, streams, peer>>

\* the call of _get_media_urls; video_info is not read after output_path
\* is built and is dropped here
dv_get_media_urls(r) ==
    /\ pc = "_get_media_urls"
    /\ trace' = Append(trace, "_get_media_urls")
    /\ video_info' = NoInfo
    /\ resp' = r
    /\ streams' = selected_streams(r, job.quality)
    /\ urls' = _get_media_urls(r, job.quality)
    /\ pc' = "check_urls"
    /\ UNCHANGED <<history_file, downloaded, load_error, temp_dir, outputs, job,
                   temp_video, temp_audio,
                   output_path, retry, attempts, dl_ret, merge_ret, records,
                   durable, success, outcome, result, njobs, peer>>

\* if not video_url or not audio_url: return False; else the temporary
\* paths are built and the video transfer is called
dv_check_urls ==
    /\ pc = "check_urls"
    /\ resp' = NoResp
    /\ streams' = NoStreams
    /\ IF urls.video_url = None \/ urls.audio_url = None
       THEN /\ Return(FALSE, "resolve_failed")
            /\ UNCHANGED <<trace, temp_video, temp_audio>>
       ELSE /\ temp_video' = temp_path(job.bvid, job.cid, "video")
            /\ temp_audio' = temp_path(job.bvid, job.cid, "audio")
            /\ pc' = "fetch_video"
            /\ trace' = Append(trace, "_download_media video")
            /\ UNCHANGED <<result, outcome>>
    /\ UNCHANGED <<history_file, downloaded, load_error, temp_dir, outputs, job,
                   video_info,
                   output_path, urls, retry, attempts, dl_ret, merge_ret,
                   records, durable, success, njobs, peer>>

(***************************************************************************)
(* _download_media: the retry loop, one transfer attempt per step.         *)
(***************************************************************************)
fetching == pc \in {"fetch_video", "fetch_audio"}

fetch_kind == IF pc = "fetch_video" THEN "video" ELSE "audio"

\* the arguments url and path of the current _download_media call
fetch_url == IF pc = "fetch_video" THEN urls.video_url ELSE urls.audio_url

fetch_path == IF pc = "fetch_video" THEN temp_video ELSE temp_audio

\* a failure handler that leaves the partial file in place
unlink_if_exists_forgotten(file) == file

\* if path.exists(): path.unlink()
unlink_if_exists(file) == IF file.exists THEN unlink(file) ELSE file

\* the file after a transfer that raised: written < 0 when it raised before
\* open(path, "wb"), otherwise the number of chunks written before it raised
failed_transfer(file, body, written) ==
    IF written < 0 THEN file ELSE write(open_w(file), SubSeq(body, 1, written))

\* a transfer that opens the file for appending instead of truncating it
complete_transfer_appending(file, body) == FileOf(file.data \o body)

\* the file after a transfer that ran to the end of the body
complete_transfer(file, body) == write(open_w(file), body)

\* range(self.config.max_retries): whether the loop has another iteration
loop_continues(n) == n < max_retries

\* a return that reports success whatever the attempts did
fetch_return_success(value) ==
    /\ dl_ret' = TRUE
    /\ pc' = IF pc = "fetch_video" THEN "fetched_video" ELSE "fetched_audio"

\* _download_media returns to download_video
fetch_return(value) ==
    /\ dl_ret' = value
    /\ pc' = IF pc = "fetch_video" THEN "fetched_video" ELSE "fetched_audio"

\* an attempt that transfers the whole body: return True
download_attempt_ok ==
    /\ fetching
    /\ loop_continues(retry)
    /\ temp_dir' = [temp_dir EXCEPT ![fetch_path] =
                        complete_transfer(@, Body(fetch_url))]
    /\ attempts' = Append(attempts, "ok")
    /\ fetch_return(TRUE)
    /\ UNCHANGED <<history_file, downloaded, load_error, outputs, job,
                   video_info, temp_video, temp_audio, output_path,
                   resp, urls, retry, merge_ret, records, durable, success,
                   outcome, result, trace, njobs, streams, peer>>

\* an attempt that raises: the partial file is removed and the loop goes on
download_attempt_fail(written) ==
    /\ fetching
    /\ loop_continues(retry)
    /\ temp_dir' = [temp_dir EXCEPT ![fetch_path] =
                        unlink_if_exists(
                            failed_transfer(@, Body(fetch_url), written))]
    /\ attempts' = Append(attempts, "fail")
    /\ retry' = retry + 1
    /\ UNCHANGED <<history_file, downloaded, load_error, outputs, pc, job,
                   video_info, temp_video, temp_audio,
                   output_path, resp, urls, dl_ret, merge_ret, records, durable,
                   success, outcome, result, trace, njobs, streams, peer>>

\* the loop ends without a successful attempt: return False
download_exhausted ==
    /\ fetching
    /\ ~loop_continues(retry)
    /\ fetch_return(FALSE)
    /\ UNCHANGED <<history_file, downloaded, load_error, temp_dir, outputs, job,
                   video_info, temp_video, temp_audio,
                   output_path, resp, urls, retry, attempts, merge_ret, records,
                   durable, success, outcome, result, trace, njobs,
                   streams, peer>>

\* self._download_media(video_url, temp_video) and ...
dv_after_video ==
    /\ pc = "fetched_video"
    /\ IF dl_ret
       THEN /\ pc' = "fetch_audio"
            /\ retry' = 0
            /\ attempts' = <<>>
            /\ trace' = Append(trace, "_download_media audio")
            /\ UNCHANGED outcome
       ELSE /\ pc' = "cleanup"
            /\ outcome' = "video_failed"
            /\ UNCHANGED <<retry, attempts, trace>>
    /\ UNCHANGED <<history_file, downloaded, load_error, temp_dir, outputs, job,
                   video_info, temp_video, temp_audio,
                   output_path, resp, urls, dl_ret, merge_ret, records, durable,
                   success, result, njobs, streams, peer>>

\* ... self._download_media(audio_url, temp_audio) and ...
dv_after_audio ==
    /\ pc = "fetched_audio"
    /\ IF dl_ret
       THEN /\ pc' = "_merge_files"
            /\ trace' = Append(trace, "_merge_files")
            /\ UNCHANGED outcome
       ELSE /\ pc' = "cleanup"
            /\ outcome' = "audio_failed"
            /\ UNCHANGED trace
    /\ UNCHANGED <<history_file, downloaded, load_error, temp_dir, outputs, job,
                   video_info, temp_video, temp_audio,
                   output_path, resp, urls, retry, attempts, dl_ret, merge_ret,
                   records, durable, success, result, njobs, streams, peer>>

(***************************************************************************)
(* _merge_files.  The external tool is run with -y on output_path: it      *)
(* exits with status zero and a complete output, or exits non-zero having  *)
(* written nothing or a part of the output, or cannot be launched.         *)
(***************************************************************************)
MuxRuns == {"exit zero", "exit non-zero", "exit non-zero, output begun", "not launched"}

\* a tool run without -y, which keeps an output file that is already there
mux_output_no_overwrite(file, run, key) ==
    IF file.exists THEN file
    ELSE CASE run = "exit zero" -> Output(TRUE, key)
           [] run = "exit non-zero, output begun" -> Output(FALSE, key)
           [] OTHER -> file

\* the output file after the run of the tool
mux_output(file, run, key) ==
    CASE run = "exit zero" -> Output(TRUE, key)
      [] run = "exit non-zero, output begun" -> Output(FALSE, key)
      [] OTHER -> file

\* a muxer wrapper that reports success whatever the tool did
merge_files_result_always_true(run) == "True"

\* how _merge_files ends: on CalledProcessError the handler evaluates
\* e.stderr.decode() with e.stderr = None (stderr went to DEVNULL), which
\* raises out of _merge_files
merge_files_result(run) ==
    CASE run = "exit zero" -> "True"
      [] run = "not launched" -> "False"
      [] OTHER -> "raised"

\* a handler that catches the errors of the HTTP client only
except_Exception_requests_only(e) ==
    IF e = "RequestException" THEN "return False" ELSE "propagate"

\* except Exception as e of download_video: every exception raised inside
\* the try block is logged and turned into return False
except_Exception(e) == "return False"

\* ... self._merge_files(temp_video, temp_audio, output_path)
dv_merge_files(run) ==
    /\ pc = "_merge_files"
    /\ outputs' = [outputs EXCEPT ![output_path] = mux_output(@, run, JobKey(job))]
    /\ merge_ret' = merge_files_result(run)
    /\ CASE merge_files_result(run) = "True" ->
                /\ success' = TRUE
                /\ pc' = "_save_download_entry"
                /\ trace' = Append(trace, "_save_download_entry")
                /\ UNCHANGED <<result, outcome>>
         [] merge_files_result(run) = "False" ->
                /\ success' = FALSE
                /\ pc' = "cleanup"
                /\ outcome' = "mux_failed"
                /\ UNCHANGED <<result, trace>>
         [] OTHER ->      \* the AttributeError reaches the handler of download_video
                /\ IF except_Exception("AttributeError") = "return False"
                   THEN Return(FALSE, "mux_raised")
                   ELSE pc' = "escaped" /\ UNCHANGED <<result, outcome>>
                /\ UNCHANGED <<success, trace>>
    /\ UNCHANGED <<history_file, downloaded, load_error, temp_dir, job,
                   video_info, temp_video, temp_audio, output_path,
                   resp, urls, retry, attempts, dl_ret, records, durable, njobs,
                   streams, peer>>

(***************************************************************************)
(* _save_download_entry: read the log, append, reopen for writing, dump.   *)
(***************************************************************************)
\* whether reading the existing log raises (json.load on invalid text)
read_raises(file) == file.exists /\ ~json_valid(file.data)

\* records after the read and the append
read_and_append(file, entry) ==
    Append(IF file.exists THEN json_load(file.data) ELSE <<>>, entry)

\* the read of the log and records.append; an exception is logged and the
\* method returns without writing
save_read ==
    /\ pc = "_save_download_entry"
    /\ durable' = _load_download_history(history_file).keys
    /\ IF read_raises(history_file)
       THEN pc' = "add" /\ UNCHANGED records
       ELSE /\ records' = read_and_append(history_file, KeyEntry(JobKey(job)))
            /\ pc' = "save_open"
    /\ UNCHANGED <<history_file, downloaded, load_error, temp_dir, outputs, job,
                   video_info, temp_video, temp_audio,
                   output_path, resp, urls, retry, attempts, dl_ret, merge_ret,
                   success, outcome, result, trace, njobs, streams, peer>>

\* open(self.config.history_file, "w")
save_open ==
    /\ pc = "save_open"
    /\ history_file' = open_w(history_file)
    /\ pc' = "save_dump"
    /\ UNCHANGED <<downloaded, load_error, temp_dir, outputs, job,
                   video_info, temp_video, temp_audio, output_path,
                   resp, urls, retry, attempts, dl_ret, merge_ret, records,
                   durable, success, outcome, result, trace, njobs,
                   streams, peer>>

\* json.dump(records, f) and the close of the file
save_dump ==
    /\ pc = "save_dump"
    /\ history_file' = write(history_file, json_dump(records))
    /\ pc' = "add"
    /\ UNCHANGED <<downloaded, load_error, temp_dir, outputs, job,
                   video_info, temp_video, temp_audio, output_path,
                   resp, urls, retry, attempts, dl_ret, merge_ret, records,
                   durable, success, outcome, result, trace, njobs,
                   streams, peer>>

\* self.downloaded.add((bvid, cid, quality))
dv_add ==
    /\ pc = "add"
    /\ downloaded' = downloaded \cup {JobKey(job)}
    /\ outcome' = "recorded"
    /\ pc' = "cleanup"
    /\ UNCHANGED <<history_file, load_error, temp_dir, outputs, job,
                   video_info, temp_video, temp_audio, output_path,
                   resp, urls, retry, attempts, dl_ret, merge_ret, records,
                   durable, success, result, trace, njobs, streams, peer>>

\* temp_video.unlink(missing_ok=True); temp_audio.unlink(missing_ok=True);
\* return success
dv_cleanup ==
    /\ pc = "cleanup"
    /\ temp_dir' = [temp_dir EXCEPT
                        ![temp_video] = unlink(@),
                        ![temp_audio] = unlink(@)]
    /\ Return(success, outcome)
    /\ UNCHANGED <<history_file, downloaded, load_error, outputs, job,
                   video_info, temp_video, temp_audio, output_path,
                   resp, urls, retry, attempts, dl_ret, merge_ret, records,
                   durable, success, trace, njobs, streams, peer>>

(***************************************************************************)
(* One downloader process running a batch of jobs.                         *)
(***************************************************************************)
Next ==
    \/ \E bvid \in Bvids, cid \in Cids, quality \in Qualities, args \in JobArgs :
          dv_check_ledger(bvid, cid, quality, args)
    \/ \E info \in VideoInfos(job.bvid) : dv_get_video_info(info)
    \/ \E r \in Responses : dv_get_media_urls(r)
    \/ dv_check_urls
    \/ download_attempt_ok
    \/ \E written \in -1..BodyLen : download_attempt_fail(written)
    \/ download_exhausted
    \/ dv_after_video
    \/ dv_after_audio
    \/ \E run \in MuxRuns : dv_merge_files(run)
    \/ save_read
    \/ save_open
    \/ save_dump
    \/ dv_add
    \/ dv_cleanup

Spec == Init /\ [][Next]_vars

(***************************************************************************)
(* The resolver alone, run on every response of the bounded universe.      *)
(***************************************************************************)
InitResolve ==
    /\ \E r \in AllResponses, quality \in Qualities :
          /\ resp = r
          /\ job = [NoJob EXCEPT !.bvid = BV1, !.cid = 1, !.quality = quality]
    /\ history_file = post_init(NoFile)
    /\ downloaded = {}
    /\ load_error = FALSE
    /\ temp_dir = [p \in TempPaths |-> NoFile]
    /\ outputs = [p \in OutputPaths |-> NoOutput]
    /\ pc = "_get_media_urls"
    /\ video_info = NoInfo
    /\ output_path = None
    /\ temp_video = None
    /\ temp_audio = None
    /\ streams = NoStreams
    /\ urls = NoUrls
    /\ retry = 0
    /\ attempts = <<>>
    /\ dl_ret = FALSE
    /\ merge_ret = "none"
    /\ records = <<>>
    /\ durable = {}
    /\ success = FALSE
    /\ outcome = "none"
    /\ result = FALSE
    /\ trace = <<>>
    /\ njobs = 1
    /\ peer = PeerIdle

NextResolve ==
    \/ dv_get_media_urls(resp)
    \/ dv_check_urls

SpecResolve == InitResolve /\ [][NextResolve]_vars

(***************************************************************************)
(* A crash of the process inside _save_download_entry, and the next start. *)
(***************************************************************************)
Prefixes(text) == {SubSeq(text, 1, n) : n \in 0..Len(text)}

\* the process dies; of a dump in progress any part may have reached the file
Crash ==
    /\ pc \in {"_save_download_entry", "save_open", "save_dump"}
    /\ pc' = "crashed"
    /\ IF pc = "save_dump"
       THEN \E text \in Prefixes(json_dump(records)) :
                history_file' = write(history_file, text)
       ELSE UNCHANGED history_file
    /\ UNCHANGED <<downloaded, load_error, temp_dir, outputs, job,
                   video_info, temp_video, temp_audio, output_path,
                   resp, streams, urls, retry, attempts, dl_ret, merge_ret,
                   records, durable, success, outcome, result, trace, njobs, peer>>

\* the program is started again: Config.__post_init__ and __init__
Restart ==
    /\ pc = "crashed"
    /\ history_file' = post_init(history_file)
    /\ downloaded' = _load_download_history(post_init(history_file)).keys
    /\ load_error' = _load_download_history(post_init(history_file)).error
    /\ pc' = "ready"
    /\ job' = NoJob
    /\ video_info' = NoInfo
    /\ output_path' = None
    /\ temp_video' = None
    /\ temp_audio' = None
    /\ resp' = NoResp
    /\ streams' = NoStreams
    /\ urls' = NoUrls
    /\ retry' = 0
    /\ attempts' = <<>>
    /\ dl_ret' = FALSE
    /\ merge_ret' = "none"
    /\ records' = <<>>
    /\ durable' = {}
    /\ success' = FALSE
    /\ outcome' = "none"
    /\ result' = FALSE
    /\ trace' = <<>>
    /\ UNCHANGED <<temp_dir, outputs, njobs, peer>>

NextCrash == Next \/ Crash \/ Restart

SpecCrash == Init /\ [][NextCrash]_vars

(***************************************************************************)
(* A second downloader process that shares the history file and records    *)
(* one entry through its own _save_download_entry.                         *)
(***************************************************************************)
peer_unchanged ==
    UNCHANGED <<downloaded, load_error, temp_dir, outputs, pc, job,
                video_info, temp_video, temp_audio, output_path,
                resp, streams, urls, retry, attempts, dl_ret, merge_ret, records,
                durable, success, outcome, result, trace, njobs>>

peer_read ==
    /\ peer.pc = "idle"
    /\ IF read_raises(history_file)
       THEN peer' = [peer EXCEPT !.pc = "done"]
       ELSE peer' = [pc |-> "open",
                     records |-> read_and_append(history_file, KeyEntry(PeerKey))]
    /\ UNCHANGED history_file
    /\ peer_unchanged

peer_open ==
    /\ peer.pc = "open"
    /\ history_file' = open_w(history_file)
    /\ peer' = [peer EXCEPT !.pc = "dump"]
    /\ peer_unchanged

peer_dump ==
    /\ peer.pc = "dump"
    /\ history_file' = write(history_file, json_dump(peer.records))
    /\ peer' = [peer EXCEPT !.pc = "done"]
    /\ peer_unchanged

NextPeers == Next \/ peer_read \/ peer_open \/ peer_dump

SpecPeers == Init /\ [][NextPeers]_vars

(***************************************************************************)
(* The naming of the output file, run on enumerated titles, part labels    *)
(* and uploader names.                                                     *)
(***************************************************************************)
\* a fresh process inside its first download_video call, after the ledger check
InCall(j) ==
    /\ history_file = post_init(NoFile)
    /\ downloaded = {}
    /\ load_error = FALSE
    /\ temp_dir = [p \in TempPaths |-> NoFile]
    /\ outputs = [p \in OutputPaths |-> NoOutput]
    /\ pc = "get_video_info"
    /\ job = j
    /\ video_info = NoInfo
    /\ output_path = None
    /\ temp_video = None
    /\ temp_audio = None
    /\ resp = NoResp
    /\ streams = NoStreams
    /\ urls = NoUrls
    /\ retry = 0
    /\ attempts = <<>>
    /\ dl_ret = FALSE
    /\ merge_ret = "none"
    /\ records = <<>>
    /\ durable = {}
    /\ success = FALSE
    /\ outcome = "none"
    /\ result = FALSE
    /\ trace = <<>>
    /\ njobs = 1
    /\ peer = PeerIdle

\* the characters of the enumerated texts: every illegal one, a letter, a blank
TextAlphabet == Illegal \cup {"a", " "}

RECURSIVE TextsOf(_)
TextsOf(n) ==
    IF n = 0 THEN {<<>>}
    ELSE {Append(text, ch) : text \in TextsOf(n - 1), ch \in TextAlphabet}

Texts == UNION {TextsOf(n) : n \in 0..MaxTextLen}

\* a plain text and a longer one with blanks and illegal characters
SampleTexts ==
    { <<"a">>,
      <<" ", "x", "<", "y", ">", "|", "z", " ">> }

\* video data with one page of cid 1: every text in one place, the samples
\* in the other two
NameInfos ==
    {Info(t, <<[cid |-> 1, part |-> p]>>, o) :
        t \in Texts, p \in SampleTexts, o \in SampleTexts}
    \cup {Info(t, <<[cid |-> 1, part |-> p]>>, o) :
        t \in SampleTexts, p \in Texts, o \in SampleTexts}
    \cup {Info(t, <<[cid |-> 1, part |-> p]>>, o) :
        t \in SampleTexts, p \in SampleTexts, o \in Texts}

InitNames ==
    \E args \in JobArgs :
        InCall([bvid |-> BV1, cid |-> 1, quality |-> 80,
                dest_dir |-> args.dest_dir, suffix |-> args.suffix])

NextNames == \E info \in NameInfos : dv_get_video_info(info)

SpecNames == InitNames /\ [][NextNames]_vars

(***************************************************************************)
(* The naming of the temporary files, run on enumerated bvids and cids.    *)
(***************************************************************************)
\* the characters of the enumerated bvids: a letter, a digit, the separator
BvidAlphabet == {"B", "1", "_"}

RECURSIVE BvidsOf(_)
BvidsOf(n) ==
    IF n = 0 THEN {<<>>}
    ELSE {Append(text, ch) : text \in BvidsOf(n - 1), ch \in BvidAlphabet}

NameBvids == UNION {BvidsOf(n) : n \in 1..MaxBvidLen}

NameCids == 1..MaxCid

\* the video data of a job: one page, with the cid of the job
TempInfos(cid) == {Info(<<"a">>, <<[cid |-> cid, part |-> <<"p">>]>>, <<"x">>)}

\* a playurl answer that resolves and one that does not
TempResponses ==
    { NoResp,
      Manifest(<<Candidate(80, 1, Url("video", 1), None)>>,
               <<Candidate(30216, 1, Url("audio", 1), None)>>) }

InitTemps ==
    \E bvid \in NameBvids, cid \in NameCids :
        InCall([bvid |-> bvid, cid |-> cid, quality |-> 80,
                dest_dir |-> "folder", suffix |-> <<>>])

NextTemps ==
    \/ \E info \in TempInfos(job.cid) : dv_get_video_info(info)
    \/ \E r \in TempResponses : dv_get_media_urls(r)
    \/ dv_check_urls

SpecTemps == InitTemps /\ [][NextTemps]_vars

(***************************************************************************)
(* Properties.                                                             *)
(***************************************************************************)
job_temp(kind) == temp_dir[temp_path(job.bvid, job.cid, kind)]

\* the path of the _download_media call that has just returned
fetched_path ==
    temp_path(job.bvid, job.cid, IF pc = "fetched_video" THEN "video" ELSE "audio")

fetched_url == IF pc = "fetched_video" THEN urls.video_url ELSE urls.audio_url

fetched == pc \in {"fetched_video", "fetched_audio"}

history_entries == SeqRange(json_load(history_file.data))

\* C1: after the first download_video call of a run (the temp directory is
\* empty when it starts) has returned, in any outcome, neither the video nor
\* the audio temp file of its (bvid, cid) exists.
C1_CleanupInvariant ==
    (pc = "returned" /\ njobs = 1)
        => (~job_temp("video").exists /\ ~job_temp("audio").exists)

\* C2: a download_video call whose key is in the in-memory ledger returns
\* True at once: no stage is invoked, and the history file, the in-memory
\* set, the temp directory and the destination directories are unchanged.
C2_IdempotentSkip ==
    [][ (njobs' = njobs + 1 /\ JobKey(job') \in downloaded)
            => /\ pc' = "returned"
               /\ result' = TRUE
               /\ trace' = <<>>
               /\ UNCHANGED <<history_file, downloaded, temp_dir, outputs>> ]_vars

\* a call skipped because an earlier job of this run recorded its key
C2_Witness ==
    /\ pc = "returned"
    /\ outcome = "skipped"
    /\ result = TRUE
    /\ njobs = 2
    /\ \E p \in OutputPaths : outputs[p] = Output(TRUE, JobKey(job))

\* C3: when the history file had invalid syntax at start, the load gave the
\* empty set and reported an error, and once _save_download_entry has
\* returned the history file is a valid store that contains the entry.
C3_CorruptionRecovery ==
    /\ (load_error /\ pc = "ready") => downloaded = {}
    /\ (load_error /\ pc = "add")
          => /\ json_valid(history_file.data)
             /\ KeyEntry(JobKey(job)) \in history_entries

\* C4: the in-memory set and the history file change only in a call whose
\* video transfer, audio transfer and mux all succeeded, and a call that
\* returns False is not such a call.
C4_LedgerOnlyOnSuccess ==
    /\ [][ (downloaded' # downloaded \/ history_file' # history_file)
              => /\ job_temp("video") = FileOf(Body(urls.video_url))
                 /\ job_temp("audio") = FileOf(Body(urls.audio_url))
                 /\ merge_ret = "True"
                 /\ outputs[output_path] = Output(TRUE, JobKey(job)) ]_vars
    /\ []((pc = "returned" /\ result = FALSE) => merge_ret # "True")

\* a recorded job: the key is in the set and the entry in the file
C4_Witness ==
    /\ pc = "returned"
    /\ outcome = "recorded"
    /\ JobKey(job) \in downloaded
    /\ json_valid(history_file.data)
    /\ KeyEntry(JobKey(job)) \in history_entries

\* C5: after download_video has returned, no partially written output file
\* is in the destination directories.
C5_NoPartialOutput ==
    pc = "returned" => \A p \in OutputPaths : outputs[p].exists => outputs[p].complete

\* C6: after a crash inside _save_download_entry the history file still
\* loads to every key it held when the call was entered.
C6_CrashDurability ==
    pc = "crashed" => durable \subseteq _load_download_history(history_file).keys

\* C7: when this process and the second process have both read a valid
\* history file and finished their _save_download_entry, the file holds the
\* entries of both.
C7_ConcurrentAppendsSurvive ==
    (pc = "add" /\ records # <<>> /\ peer.pc = "done" /\ peer.records # <<>>)
        => /\ json_valid(history_file.data)
           /\ {KeyEntry(JobKey(job)), KeyEntry(PeerKey)} \subseteq history_entries

\* the log of a call whose first k attempts failed and whose next one succeeded
fails_then_ok(k) == [i \in 1..(k + 1) |-> IF i <= k THEN "fail" ELSE "ok"]

all_fail(n) == [i \in 1..n |-> "fail"]

\* C8: a _download_media call whose first k < max_retries attempts fail and
\* whose attempt k+1 succeeds returns True after exactly k+1 attempts, with
\* exactly the body of the URL at its path; the call touches no other file.
C8_FetchRetrySuccess ==
    /\ []((fetched /\ dl_ret)
            => /\ \E k \in 0..(max_retries - 1) :
                     attempts = fails_then_ok(k) /\ retry = k
               /\ temp_dir[fetched_path] = FileOf(Body(fetched_url)))
    /\ []((attempts # <<>> /\ attempts[Len(attempts)] = "ok")
            => (dl_ret /\ ~fetching))
    /\ [][ fetching
            => /\ \A p \in TempPaths \ {fetch_path} : temp_dir'[p] = temp_dir[p]
               /\ UNCHANGED <<outputs, history_file>> ]_vars

\* two failed attempts, then a successful third one
C8_Witness ==
    /\ pc = "fetched_video"
    /\ dl_ret
    /\ attempts = <<"fail", "fail", "ok">>
    /\ temp_dir[fetched_path] = FileOf(Body(urls.video_url))

\* C9: a _download_media call whose every attempt fails returns False after
\* exactly max_retries attempts and leaves no file at its path.
C9_FetchExhaustion ==
    /\ (fetched /\ ~dl_ret)
          => /\ attempts = all_fail(max_retries)
             /\ ~temp_dir[fetched_path].exists
    /\ (fetching /\ attempts = all_fail(max_retries)) => ~loop_continues(retry)
    /\ Len(attempts) <= max_retries

\* the audio transfer exhausted its attempts, the last one after writing
C9_Witness ==
    /\ pc = "fetched_audio"
    /\ ~dl_ret
    /\ attempts = all_fail(max_retries)
    /\ ~temp_dir[fetched_path].exists

\* the positions of the video candidates of the requested rank
rank_positions == {i \in 1..Len(resp.video) : resp.video[i].id = job.quality}

\* C10: when the manifest has a video candidate of the requested rank, the
\* selected video stream has exactly that rank and the maximal bandwidth of
\* the candidates of that rank, and the returned video URL is its URL.
C10_VideoSelection ==
    (pc = "check_urls" /\ has_manifest(resp) /\ rank_positions # {})
        => /\ streams.video \in rank_positions
           /\ \A j \in rank_positions :
                 resp.video[j].bandwidth <= resp.video[streams.video].bandwidth
           /\ streams.audio # 0
                 => urls.video_url = stream_url(resp.video[streams.video])

\* two candidates of the requested rank, the better one last, after a
\* candidate of another rank with the top bandwidth
C10_Witness ==
    /\ pc = "check_urls"
    /\ has_manifest(resp)
    /\ Len(resp.video) = 3
    /\ resp.video[1].id # job.quality /\ resp.video[1].bandwidth = MaxBandwidth
    /\ resp.video[2].id = job.quality /\ resp.video[2].bandwidth = 1
    /\ resp.video[3].id = job.quality /\ resp.video[3].bandwidth = 2
    /\ streams.video = 3
    /\ urls.video_url = Url("video", 3)

\* the positions of the audio candidates with the hi-res id
hi_res_positions == {i \in 1..Len(resp.audio) : resp.audio[i].id = HiResAudioId}

\* C11: for a non-empty audio candidate list the selected audio stream has
\* the id 30251 whenever some candidate has it, whatever the bandwidths;
\* otherwise it has the maximal bandwidth of all the audio candidates; the
\* returned audio URL is the URL of the selected stream.
C11_AudioSelection ==
    (pc = "check_urls" /\ has_manifest(resp) /\ Len(resp.audio) > 0)
        => /\ streams.audio \in 1..Len(resp.audio)
           /\ hi_res_positions # {} => streams.audio \in hi_res_positions
           /\ hi_res_positions = {}
                 => \A j \in 1..Len(resp.audio) :
                       resp.audio[j].bandwidth <= resp.audio[streams.audio].bandwidth
           /\ streams.video # 0
                 => urls.audio_url = stream_url(resp.audio[streams.audio])

\* a hi-res candidate of lower bandwidth is selected over an ordinary
\* candidate of the top bandwidth listed before it
C11_Witness ==
    /\ pc = "check_urls"
    /\ has_manifest(resp)
    /\ Len(resp.audio) = 2
    /\ resp.audio[1].id # HiResAudioId /\ resp.audio[1].bandwidth = MaxBandwidth
    /\ resp.audio[2].id = HiResAudioId /\ resp.audio[2].bandwidth = 1
    /\ streams.audio = 2
    /\ urls.audio_url = Url("audio", 2)

\* the playurl answers for which the resolution has to fail: an HTTP error,
\* a non-zero code, no dash manifest, an absent or empty candidate list, no
\* video candidate of the requested rank, or a selected candidate without URL
resolution_fails ==
    \/ ~resp.http_ok
    \/ resp.code # 0
    \/ ~resp.has_dash
    \/ ~resp.has_video \/ ~resp.has_audio
    \/ resp.video = <<>> \/ resp.audio = <<>>
    \/ rank_positions = {}
    \/ resp.video[streams.video].baseUrl = None /\ resp.video[streams.video].base_url = None
    \/ resp.audio[streams.audio].baseUrl = None /\ resp.audio[streams.audio].base_url = None

\* C12: when the playurl answer makes the resolution fail, download_video
\* returns False from the URL check without starting a stream transfer and
\* without invoking the muxer: no file changes and the call's trace ends
\* at _get_media_urls.
C12_ResolveFailureStopsJob ==
    [][ (pc = "check_urls" /\ resolution_fails)
          => /\ urls.video_url = None \/ urls.audio_url = None
             /\ pc' = "returned"
             /\ result' = FALSE
             /\ outcome' = "resolve_failed"
             /\ trace' = <<"get_video_info", "_get_media_urls">>
             /\ UNCHANGED <<temp_dir, outputs, history_file, downloaded>> ]_vars

\* a call that returned False from the URL check, with no URL resolved, no
\* transfer started and no temporary file
C12_Witness ==
    /\ pc = "returned"
    /\ outcome = "resolve_failed"
    /\ result = FALSE
    /\ trace = <<"get_video_info", "_get_media_urls">>
    /\ urls = NoUrls
    /\ \A p \in TempPaths : ~temp_dir[p].exists

\* the ways a download_video call fails at one of its stages
StageFailures ==
    {"info_failed", "page_missing", "resolve_failed", "video_failed",
     "audio_failed", "mux_failed", "mux_raised"}

\* the next download_video call of the batch can start
next_call ==
    \E bvid \in Bvids, cid \in Cids, quality \in Qualities, args \in JobArgs :
        dv_check_ledger(bvid, cid, quality, args)

\* C13: no exception escapes download_video: every call that ends has
\* returned a boolean, False for a failure of the metadata lookup, the page
\* lookup, the resolution, a transfer or the muxer (non-zero exit or launch
\* failure) and True when only the ledger write failed, and after a
\* return the next call of the batch can start.
C13_StructuredResult ==
    /\ pc # "escaped"
    /\ pc = "returned"
          => /\ result \in BOOLEAN
             /\ outcome \in StageFailures \cup {"skipped", "recorded"}
             /\ outcome \in StageFailures => result = FALSE
             /\ outcome \in {"skipped", "recorded"} => result = TRUE
             /\ njobs < MaxJobs => ENABLED next_call

\* the second call of a batch has started after the first returned False
\* because the muxer wrapper raised, leaving its temporary files behind
C13_Witness ==
    /\ njobs = 2
    /\ pc = "get_video_info"
    /\ \E p \in TempPaths : temp_dir[p].exists

\* C14: when the history file was missing, zero bytes long or a valid array
\* at start (the load reported no error), then after a call has ended
\* Recorded for its key a fresh _load_download_history of the history file
\* returns a set that contains the key.
C14_DurableRoundTrip ==
    (~load_error /\ pc = "returned" /\ outcome = "recorded")
        => JobKey(job) \in _load_download_history(history_file).keys

\* the name part of the output path
output_file_name == output_path[2]

\* C15: for every title, part label and uploader name over an alphabet that
\* includes the characters \ / : * ? " < > | and a suffix free of them, the
\* output file name download_video builds contains none of those characters.
C15_FilenameSanitization ==
    (pc = "_get_media_urls")
        => \A i \in 1..Len(output_file_name) : output_file_name[i] \notin Illegal

\* an output name built from a title, a part label and an uploader name
\* that each held an illegal character
C15_Witness ==
    /\ pc = "_get_media_urls"
    /\ \E i \in 1..Len(video_info.title) : video_info.title[i] \in Illegal
    /\ \E i \in 1..Len(video_info.pages[1].part) : video_info.pages[1].part[i] \in Illegal
    /\ \E i \in 1..Len(video_info.owner_name) : video_info.owner_name[i] \in Illegal
    /\ output_file_name = <<"a", "_", "x", "y", "z", "-", "x", "y", "z", "-", "h", "d", "r", ".mp4">>

\* C16: _merge_files never raises: it returns False when the muxer exits
\* non-zero and when it cannot be launched, and it returns True only when the
\* muxer exited zero and so left a complete output file.
C16_MuxErrorTranslation ==
    /\ merge_ret \in {"none", "True", "False"}
    /\ merge_ret = "True" => outputs[output_path] = Output(TRUE, JobKey(job))

\* a step invokes a stage: it appends the stage to the trace of the call
invokes(stage) == trace' = Append(trace, stage)

\* C17: within a call the video transfer is invoked only after a resolution
\* that gave both URLs, the audio transfer only after the video transfer
\* returned True with the whole video body in its temp file, the muxer only
\* after both transfers left their whole bodies, and the ledger write only
\* after the muxer returned True and left a complete output; each stage
\* directly follows the one before it.
C17_StageOrdering ==
    [][ /\ invokes("_get_media_urls") => trace = <<"get_video_info">>
        /\ invokes("_download_media video")
              => /\ trace[Len(trace)] = "_get_media_urls"
                 /\ urls.video_url # None /\ urls.audio_url # None
        /\ invokes("_download_media audio")
              => /\ trace[Len(trace)] = "_download_media video"
                 /\ dl_ret
                 /\ temp_dir[temp_video] = FileOf(Body(urls.video_url))
        /\ invokes("_merge_files")
              => /\ trace[Len(trace)] = "_download_media audio"
                 /\ temp_dir[temp_video] = FileOf(Body(urls.video_url))
                 /\ temp_dir[temp_audio] = FileOf(Body(urls.audio_url))
        /\ invokes("_save_download_entry")
              => /\ trace[Len(trace)] = "_merge_files"
                 /\ merge_ret' = "True"
                 /\ outputs'[output_path] = Output(TRUE, JobKey(job))
        /\ (history_file' # history_file \/ downloaded' # downloaded)
              => trace[Len(trace)] = "_save_download_entry" ]_vars

\* a call that went through every stage in order and was recorded
C17_Witness ==
    /\ pc = "returned"
    /\ outcome = "recorded"
    /\ trace = <<"get_video_info", "_get_media_urls", "_download_media video",
                 "_download_media audio", "_merge_files", "_save_download_entry">>

\* the (bvid, cid, track kind) triples whose temporary file name is path
named_by(path) ==
    { t \in NameBvids \X NameCids \X {"video", "audio"} :
        temp_path(t[1], t[2], t[3]) = path }

\* C18: the temporary paths a call builds are the names of its own (bvid,
\* cid, track kind) triples and of no other triple, so two temporary paths
\* are equal only when bvid, cid and track kind are equal; the video path
\* and the audio path of one call differ.
C18_TempNamesUnique ==
    (pc = "fetch_video")
        => /\ named_by(temp_video) = {<<job.bvid, job.cid, "video">>}
           /\ named_by(temp_audio) = {<<job.bvid, job.cid, "audio">>}
           /\ temp_video # temp_audio

\* the paths of a job whose bvid is a digit followed by the separator and
\* whose cid has two digits
C18_Witness ==
    /\ pc = "fetch_video"
    /\ job.bvid = <<"1", "_">>
    /\ job.cid = 12
    /\ temp_video = <<"1", "_", "_", "1", "2", "_", "v", "i", "d", "e", "o", ".m4s">>
    /\ temp_audio = <<"1", "_", "_", "1", "2", "_", "a", "u", "d", "i", "o", ".m4s">>

\* the complete output files of recorded jobs other than the current one
recorded_outputs_of_others ==
    { p \in OutputPaths : /\ outputs[p].complete
                          /\ outputs[p].key \in downloaded
                          /\ outputs[p].key # JobKey(job) }

\* C19 as stated: a job whose muxer succeeds, and which so ends Recorded,
\* leaves the complete output file of every recorded job with another ledger
\* key as it was: two recorded jobs with different keys wrote to different
\* output paths.
C19_NoOverwriteByOtherJob ==
    [][ merge_ret' = "True"
          => \A p \in recorded_outputs_of_others : outputs'[p] = outputs[p] ]_vars

\* C19 amended: a call changes no output file other than the one at its own
\* output path, and when it has ended Recorded that path holds its own
\* complete output; a recorded job's output is replaced only by a job that
\* derives the same output path.
C19_OverwriteOnlyAtOwnPath ==
    /\ [][ \A p \in OutputPaths : outputs'[p] # outputs[p] => p = output_path ]_vars
    /\ []((pc = "returned" /\ outcome = "recorded")
            => outputs[output_path] = Output(TRUE, JobKey(job)))

\* the second job of a run, of the same video and page at another quality,
\* ended Recorded with its output in place of the first job's output
C19_Witness ==
    /\ pc = "returned"
    /\ outcome = "recorded"
    /\ JobKey(job) = <<BV1, 1, 80>>
    /\ <<BV1, 1, 64>> \in downloaded
    /\ outputs[output_path] = Output(TRUE, JobKey(job))
    /\ Cardinality({p \in OutputPaths : outputs[p].exists}) = 1

====
